---------------------------- MODULE Spec2Model ----------------------------
(***************************************************************************)
(* snailquote: shell-like quoting of strings.                              *)
(*                                                                         *)
(* A string is a sequence of Unicode scalar values, each written as its    *)
(* code point.  escape (lib.rs 43-96) runs as a scan loop, a decision and  *)
(* an emit loop; unescape (lib.rs 177-249) runs one action per iteration   *)
(* of its while loop.  A run is either the round trip of the tests and of  *)
(* the fuzz target, unescape(&escape(s)), or a direct call of unescape on  *)
(* hand-written text.                                                      *)
(***************************************************************************)
EXTENDS Integers, Sequences, FiniteSets, TLC

VARIABLES
    caller,           \* "round_trip": unescape(&escape(s)); "unescape": unescape(quoted)
    pc,               \* "scan", "decide", "emit", "escaped", "unescape", "done"
    s,                \* escape's argument
    needs_quoting,    \* escape's local
    single_quotable,  \* escape's local
    cur,              \* characters taken from s.chars() by the running for loop
    output,           \* escape's output (its return value once pc = "escaped")
    quoted,           \* unescape's argument
    in_single_quote,  \* unescape's local
    in_double_quote,  \* unescape's local
    chars,            \* characters taken from unescape's iterator chars
    res,              \* unescape's local
    exhausted,        \* chars.next() has returned None
    ret               \* unescape's return value

vars == <<caller, pc, s, needs_quoting, single_quotable, cur, output, quoted,
          in_single_quote, in_double_quote, chars, res, exhausted, ret>>

escapeVars == <<s, needs_quoting, single_quotable, cur, output>>
unescapeVars ==
    <<quoted, in_single_quote, in_double_quote, chars, res, exhausted, ret>>

---------------------------------------------------------------------------
(* Bounds of the model. *)

\* longest enumerated argument of escape
MaxLen == 2

\* most tokens of an enumerated argument of unescape
MaxTokens == 4

---------------------------------------------------------------------------
(* Characters the code names. *)

SQ == 39
DQ == 34
BS == 92
SP == 32
BEL == 7
BSP == 8
TAB == 9
LF == 10
VT == 11
FF == 12
CR == 13
ESC == 27
LBRACE == 123
RBRACE == 125
PLUS == 43
MINUS == 45
LowerU == 117

---------------------------------------------------------------------------
(* Character classes: char::is_whitespace of the standard library and      *)
(* is_separator / is_other of unicode_categories, on the code points of    *)
(* the ranges listed (White_Space; Zs, Zl, Zp; Cc, Cf, Co and the          *)
(* noncharacters of Cn).                                                   *)

IsWhitespace(c) ==
    \/ c \in 9..13
    \/ c \in {32, 133, 160, 5760, 8232, 8233, 8239, 8287, 12288}
    \/ c \in 8192..8202

IsSeparator(c) ==
    \/ c \in {32, 160, 5760, 8239, 8287, 12288}
    \/ c \in 8192..8202
    \/ c \in {8232, 8233}

IsOther(c) ==
    \/ c \in 0..31
    \/ c \in 127..159
    \/ c \in {173, 1564, 1757, 1807, 6158, 65279}
    \/ c \in 1536..1541
    \/ c \in 8203..8207
    \/ c \in 8234..8238
    \/ c \in 8288..8292
    \/ c \in 8294..8303
    \/ c \in 65529..65531
    \/ c \in 57344..63743
    \/ c \in 983040..1048573
    \/ c \in 1048576..1114109
    \/ c \in 64976..65007
    \/ c \in {65534, 65535, 1114110, 1114111}

---------------------------------------------------------------------------
(* escape: the classification loop, lib.rs 47-66. *)

\* Classify with needs_quoting set for every character.
ClassifyQuotesAll(c, nq, sqt) ==
    IF c = SQ \/ c = BS THEN <<TRUE, FALSE>>
    ELSE IF c = DQ THEN <<TRUE, sqt>>
    ELSE IF c = SP THEN <<TRUE, sqt>>
    ELSE IF IsWhitespace(c) \/ IsSeparator(c) \/ IsOther(c) THEN <<TRUE, FALSE>>
    ELSE <<TRUE, sqt>>

\* Classify with \ left single-quotable.
ClassifyBackslashQuotable(c, nq, sqt) ==
    IF c = SQ THEN <<TRUE, FALSE>>
    ELSE IF c = BS THEN <<TRUE, sqt>>
    ELSE IF c = DQ THEN <<TRUE, sqt>>
    ELSE IF c = SP THEN <<TRUE, sqt>>
    ELSE IF IsWhitespace(c) \/ IsSeparator(c) \/ IsOther(c) THEN <<TRUE, FALSE>>
    ELSE <<nq, sqt>>

\* The if-chain of lines 48-61 on character c: the new
\* <<needs_quoting, single_quotable>>.
Classify(c, nq, sqt) ==
    IF c = SQ \/ c = BS THEN <<TRUE, FALSE>>
    ELSE IF c = DQ THEN <<TRUE, sqt>>
    ELSE IF c = SP THEN <<TRUE, sqt>>
    ELSE IF IsWhitespace(c) \/ IsSeparator(c) \/ IsOther(c) THEN <<TRUE, FALSE>>
    ELSE <<nq, sqt>>

\* One iteration of `for c in s.chars()`, with the break of lines 62-65.
ScanStep ==
    /\ pc = "scan"
    /\ cur < Len(s)
    /\ LET f == Classify(s[cur + 1], needs_quoting, single_quotable) IN
         /\ needs_quoting' = f[1]
         /\ single_quotable' = f[2]
         /\ cur' = cur + 1
         /\ pc' = IF f[1] /\ ~f[2] THEN "decide" ELSE "scan"
    /\ UNCHANGED <<caller, s, output>>
    /\ UNCHANGED unescapeVars

\* The iterator is exhausted: the loop ends.
ScanEnd ==
    /\ pc = "scan"
    /\ cur = Len(s)
    /\ pc' = "decide"
    /\ UNCHANGED <<caller, escapeVars>>
    /\ UNCHANGED unescapeVars

---------------------------------------------------------------------------
(* escape: the three shapes of the result, lib.rs 68-96. *)

\* lines 68-70: return Cow::from(s)
ReturnUnquoted ==
    /\ pc = "decide"
    /\ ~needs_quoting
    /\ output' = s
    /\ pc' = "escaped"
    /\ UNCHANGED <<caller, s, needs_quoting, single_quotable, cur>>
    /\ UNCHANGED unescapeVars

\* lines 71-73: return format!("'{}'", s)
ReturnSingleQuoted ==
    /\ pc = "decide"
    /\ needs_quoting
    /\ single_quotable
    /\ output' = <<SQ>> \o s \o <<SQ>>
    /\ pc' = "escaped"
    /\ UNCHANGED <<caller, s, needs_quoting, single_quotable, cur>>
    /\ UNCHANGED unescapeVars

\* lines 76-77: output.push('"'), and the second loop starts
BeginDoubleQuoted ==
    /\ pc = "decide"
    /\ needs_quoting
    /\ ~single_quotable
    /\ output' = <<DQ>>
    /\ cur' = 0
    /\ pc' = "emit"
    /\ UNCHANGED <<caller, s, needs_quoting, single_quotable>>
    /\ UNCHANGED unescapeVars

\* HexDigitChar in uppercase.
HexDigitCharUpper(d) == IF d < 10 THEN 48 + d ELSE 55 + d

\* The digit character of d, 0 <= d < 16, in lowercase (char::from_digit).
HexDigitChar(d) == IF d < 10 THEN 48 + d ELSE 87 + d

\* The digits char::escape_unicode writes: lowercase, most significant
\* first, no leading zero, at least one digit.
RECURSIVE HexDigits(_)
HexDigits(n) ==
    IF n < 16 THEN <<HexDigitChar(n)>>
    ELSE HexDigits(n \div 16) \o <<HexDigitChar(n % 16)>>

\* char::escape_unicode: \u{NNNN}
escape_unicode(c) == <<BS, LowerU, LBRACE>> \o HexDigits(c) \o <<RBRACE>>

\* char::escape_default, as line 114 calls it.
escape_default(c) ==
    IF c = TAB THEN <<BS, 116>>
    ELSE IF c = CR THEN <<BS, 114>>
    ELSE IF c = LF THEN <<BS, 110>>
    ELSE IF c = SQ \/ c = DQ \/ c = BS THEN <<BS, c>>
    ELSE IF c \in 32..126 THEN <<c>>
    ELSE escape_unicode(c)

\* escape_character without the arm of '\u{1b}'.
escape_characterNoEsc(c) ==
    IF c = BEL THEN <<BS, 97>>
    ELSE IF c = BSP THEN <<BS, 98>>
    ELSE IF c = VT THEN <<BS, 118>>
    ELSE IF c = FF THEN <<BS, 102>>
    ELSE escape_default(c)

\* lines 105-117
escape_character(c) ==
    IF c = BEL THEN <<BS, 97>>
    ELSE IF c = BSP THEN <<BS, 98>>
    ELSE IF c = VT THEN <<BS, 118>>
    ELSE IF c = FF THEN <<BS, 102>>
    ELSE IF c = ESC THEN <<BS, 101>>
    ELSE escape_default(c)

\* EmitChar without the arm of '\\'.
EmitCharRawBackslash(c) ==
    IF c = DQ THEN <<BS, DQ>>
    ELSE IF c = SP THEN <<c>>
    ELSE IF IsOther(c) \/ IsSeparator(c) THEN escape_character(c)
    ELSE <<c>>

\* The if-chain of lines 80-91: what the second loop appends for c.
EmitChar(c) ==
    IF c = DQ THEN <<BS, DQ>>
    ELSE IF c = BS THEN <<BS, BS>>
    ELSE IF c = SP THEN <<c>>
    ELSE IF IsOther(c) \/ IsSeparator(c) THEN escape_character(c)
    ELSE <<c>>

\* One iteration of the second `for c in s.chars()`, lines 79-92.
EmitStep ==
    /\ pc = "emit"
    /\ cur < Len(s)
    /\ output' = output \o EmitChar(s[cur + 1])
    /\ cur' = cur + 1
    /\ UNCHANGED <<caller, pc, s, needs_quoting, single_quotable>>
    /\ UNCHANGED unescapeVars

\* lines 94-95: output.push('"'); output.into()
EmitEnd ==
    /\ pc = "emit"
    /\ cur = Len(s)
    /\ output' = output \o <<DQ>>
    /\ pc' = "escaped"
    /\ UNCHANGED <<caller, s, needs_quoting, single_quotable, cur>>
    /\ UNCHANGED unescapeVars

---------------------------------------------------------------------------
(* Results of unescape: Result<String, String>. *)

NoResult ==
    [tag |-> "none", val |-> <<>>, msg |-> "", at |-> 0, cause |-> ""]

Ok(v) ==
    [tag |-> "Ok", val |-> v, msg |-> "", at |-> 0, cause |-> ""]

\* An Err carries a message only: the text, the index it names and, for a
\* unicode escape, the message of parse_unicode.
Err(m, idx, e) ==
    [tag |-> "Err", val |-> <<>>, msg |-> m, at |-> idx, cause |-> e]

---------------------------------------------------------------------------
(* parse_unicode, lib.rs 257-278. *)

\* char::to_digit(16); -1 for None
ToDigit(c) ==
    IF c \in 48..57 THEN c - 48
    ELSE IF c \in 97..102 THEN c - 87
    ELSE IF c \in 65..70 THEN c - 55
    ELSE -1

\* The digit loop of u32::from_str_radix(_, 16) with its checked
\* arithmetic.  The u32 accumulator is kept as two 16-bit halves,
\* hi * 65536 + lo, and overflows when hi leaves 16 bits.
RECURSIVE AccumulateDigits(_, _, _)
AccumulateDigits(digits, hi, lo) ==
    IF digits = <<>> THEN [ok |-> TRUE, hi |-> hi, lo |-> lo]
    ELSE LET d == ToDigit(Head(digits))
             t == lo * 16 + d
             nhi == hi * 16 + (t \div 65536)
         IN  IF d < 0 THEN [ok |-> FALSE, hi |-> 0, lo |-> 0]
             ELSE IF nhi >= 65536 THEN [ok |-> FALSE, hi |-> 0, lo |-> 0]
             ELSE AccumulateDigits(Tail(digits), nhi, t % 65536)

\* u32::from_str_radix(src, 16), line 273: an empty string and a lone sign
\* are errors, one leading + is skipped, - is no digit of an unsigned type.
from_str_radix(src) ==
    IF src = <<>> THEN [ok |-> FALSE, hi |-> 0, lo |-> 0]
    ELSE IF Len(src) = 1 /\ (src[1] = PLUS \/ src[1] = MINUS)
         THEN [ok |-> FALSE, hi |-> 0, lo |-> 0]
    ELSE IF src[1] = PLUS THEN AccumulateDigits(Tail(src), 0, 0)
    ELSE AccumulateDigits(src, 0, 0)

\* char::from_u32, line 276: the scalar value, or -1 for None (a surrogate
\* or a value above 10FFFF).
from_u32(hi, lo) ==
    IF hi > 16 THEN -1
    ELSE IF hi = 0 /\ lo \in 55296..57343 THEN -1
    ELSE hi * 65536 + lo

\* take_while(|c| c != '}'), lines 268-271, from the first character not
\* yet taken: the index of the } that ends the run, or Len(str) + 1 when
\* the iterator ends first.
RECURSIVE TakeWhileEnd(_, _)
TakeWhileEnd(str, j) ==
    IF j > Len(str) THEN j
    ELSE IF str[j] = RBRACE THEN j
    ELSE TakeWhileEnd(str, j + 1)

\* parse_unicode on the iterator of str of which pos characters are taken.
\* pos: the characters taken once it returns; eof: the iterator returned
\* None.
parse_unicode(str, pos) ==
    IF pos >= Len(str)
    THEN [ok |-> FALSE, ch |-> 0, pos |-> pos, eof |-> TRUE,
          msg |-> "expected '{' character in unicode escape"]
    ELSE IF str[pos + 1] # LBRACE
    THEN [ok |-> FALSE, ch |-> 0, pos |-> pos + 1, eof |-> FALSE,
          msg |-> "expected '{' character in unicode escape"]
    ELSE LET close == TakeWhileEnd(str, pos + 2)
             unicode_seq == SubSeq(str, pos + 2, close - 1)
             taken == IF close > Len(str) THEN Len(str) ELSE close
             u == from_str_radix(unicode_seq)
         IN  IF ~u.ok
             THEN [ok |-> FALSE, ch |-> 0, pos |-> taken,
                   eof |-> close > Len(str),
                   msg |-> "could not parse as u32 hex"]
             ELSE IF from_u32(u.hi, u.lo) < 0
             THEN [ok |-> FALSE, ch |-> 0, pos |-> taken,
                   eof |-> close > Len(str),
                   msg |-> "could not parse as a unicode char"]
             ELSE [ok |-> TRUE, ch |-> from_u32(u.hi, u.lo), pos |-> taken,
                   eof |-> close > Len(str), msg |-> ""]

---------------------------------------------------------------------------
(* unescape, lib.rs 177-249: one action per iteration of the while loop,   *)
(* by the branch the iteration takes.                                      *)

\* EscapeTable with a `_` arm that pushes c2 itself.
EscapeTableLenient(c2) ==
    IF c2 = 97 THEN BEL
    ELSE IF c2 = 98 THEN BSP
    ELSE IF c2 = 118 THEN VT
    ELSE IF c2 = 102 THEN FF
    ELSE IF c2 = 110 THEN LF
    ELSE IF c2 = 114 THEN CR
    ELSE IF c2 = 116 THEN TAB
    ELSE IF c2 = 101 \/ c2 = 69 THEN ESC
    ELSE c2

\* The match of lines 204-216 on c2, the 'u' arm apart: the character
\* pushed, or -1 for the `_` arm.
EscapeTable(c2) ==
    IF c2 = 97 THEN BEL
    ELSE IF c2 = 98 THEN BSP
    ELSE IF c2 = 118 THEN VT
    ELSE IF c2 = 102 THEN FF
    ELSE IF c2 = 110 THEN LF
    ELSE IF c2 = 114 THEN CR
    ELSE IF c2 = 116 THEN TAB
    ELSE IF c2 = 101 \/ c2 = 69 THEN ESC
    ELSE IF c2 = BS THEN BS
    ELSE IF c2 = SQ THEN SQ
    ELSE IF c2 = DQ THEN DQ
    ELSE IF c2 = SP THEN SP
    ELSE -1

\* round_trip: unescape(&escape(s)); lines 178-183 set the locals.
CallUnescape ==
    /\ pc = "escaped"
    /\ caller = "round_trip"
    /\ quoted' = output
    /\ in_single_quote' = FALSE
    /\ in_double_quote' = FALSE
    /\ chars' = 0
    /\ res' = <<>>
    /\ pc' = "unescape"
    /\ UNCHANGED <<caller, exhausted, ret>>
    /\ UNCHANGED escapeVars

\* StepInSingleQuote without the `continue` of line 190.
StepInSingleQuoteNoContinue ==
    /\ pc = "unescape"
    /\ chars < Len(quoted)
    /\ in_single_quote
    /\ LET c == quoted[chars + 1] IN
         /\ in_single_quote' = (c # SQ)
         /\ res' = Append(res, c)
    /\ chars' = chars + 1
    /\ UNCHANGED <<caller, pc, quoted, in_double_quote, exhausted, ret>>
    /\ UNCHANGED escapeVars

\* lines 187-191 and 245: inside single quotes.
StepInSingleQuote ==
    /\ pc = "unescape"
    /\ chars < Len(quoted)
    /\ in_single_quote
    /\ LET c == quoted[chars + 1] IN
         IF c = SQ
         THEN /\ in_single_quote' = FALSE
              /\ res' = res
         ELSE /\ in_single_quote' = in_single_quote
              /\ res' = Append(res, c)
    /\ chars' = chars + 1
    /\ UNCHANGED <<caller, pc, quoted, in_double_quote, exhausted, ret>>
    /\ UNCHANGED escapeVars

\* lines 192-196 and 245: inside double quotes, a character other than \.
StepInDoubleQuote ==
    /\ pc = "unescape"
    /\ chars < Len(quoted)
    /\ ~in_single_quote
    /\ in_double_quote
    /\ quoted[chars + 1] # BS
    /\ LET c == quoted[chars + 1] IN
         IF c = DQ
         THEN /\ in_double_quote' = FALSE
              /\ res' = res
         ELSE /\ in_double_quote' = in_double_quote
              /\ res' = Append(res, c)
    /\ chars' = chars + 1
    /\ UNCHANGED <<caller, pc, quoted, in_single_quote, exhausted, ret>>
    /\ UNCHANGED escapeVars

\* lines 198-236: inside double quotes, a \ and what follows it.
StepEscape ==
    /\ pc = "unescape"
    /\ chars < Len(quoted)
    /\ ~in_single_quote
    /\ in_double_quote
    /\ quoted[chars + 1] = BS
    /\ IF chars + 1 >= Len(quoted)
       THEN \* line 200: chars.next() is None
            /\ ret' = Err("invalid escape at char", chars, "")
            /\ exhausted' = TRUE
            /\ chars' = chars + 1
            /\ pc' = "done"
            /\ res' = res
       ELSE LET c2 == quoted[chars + 2]
                idx == chars + 1
                p == parse_unicode(quoted, chars + 2)
            IN  IF c2 = LowerU
                THEN IF p.ok
                     THEN /\ res' = Append(res, p.ch)
                          /\ chars' = p.pos
                          /\ exhausted' = p.eof
                          /\ UNCHANGED <<pc, ret>>
                     ELSE /\ ret' = Err("\\u could not be parsed", idx, p.msg)
                          /\ chars' = p.pos
                          /\ exhausted' = p.eof
                          /\ pc' = "done"
                          /\ res' = res
                ELSE IF EscapeTable(c2) >= 0
                THEN /\ res' = Append(res, EscapeTable(c2))
                     /\ chars' = chars + 2
                     /\ UNCHANGED <<pc, exhausted, ret>>
                ELSE /\ ret' = Err("invalid escape", idx, "")
                     /\ chars' = chars + 2
                     /\ pc' = "done"
                     /\ UNCHANGED <<res, exhausted>>
    /\ UNCHANGED <<caller, quoted, in_single_quote, in_double_quote>>
    /\ UNCHANGED escapeVars

\* lines 237-245: outside quotes.
StepBare ==
    /\ pc = "unescape"
    /\ chars < Len(quoted)
    /\ ~in_single_quote
    /\ ~in_double_quote
    /\ LET c == quoted[chars + 1] IN
         IF c = SQ
         THEN /\ in_single_quote' = TRUE
              /\ UNCHANGED <<in_double_quote, res>>
         ELSE IF c = DQ
         THEN /\ in_double_quote' = TRUE
              /\ UNCHANGED <<in_single_quote, res>>
         ELSE /\ res' = Append(res, c)
              /\ UNCHANGED <<in_single_quote, in_double_quote>>
    /\ chars' = chars + 1
    /\ UNCHANGED <<caller, pc, quoted, exhausted, ret>>
    /\ UNCHANGED escapeVars

\* UnescapeReturn with an unterminated quote made an error.
UnescapeReturnStrict ==
    /\ pc = "unescape"
    /\ chars >= Len(quoted)
    /\ exhausted' = TRUE
    /\ ret' = IF in_single_quote \/ in_double_quote
              THEN Err("unterminated quote", chars, "")
              ELSE Ok(res)
    /\ pc' = "done"
    /\ UNCHANGED <<caller, quoted, in_single_quote, in_double_quote, chars, res>>
    /\ UNCHANGED escapeVars

\* lines 185 and 248: chars.next() is None, the loop ends, Ok(res).
UnescapeReturn ==
    /\ pc = "unescape"
    /\ chars >= Len(quoted)
    /\ exhausted' = TRUE
    /\ ret' = Ok(res)
    /\ pc' = "done"
    /\ UNCHANGED <<caller, quoted, in_single_quote, in_double_quote, chars, res>>
    /\ UNCHANGED escapeVars

---------------------------------------------------------------------------
(* Arguments. *)

\* Sequences over S of length at most n.
SeqsUpTo(S, n) == UNION {[1..m -> S] : m \in 0..n}

RECURSIVE Flatten(_)
Flatten(ts) == IF ts = <<>> THEN <<>> ELSE Head(ts) \o Flatten(Tail(ts))

\* Characters of escape's enumerated arguments: the quotes and \, the
\* space, controls with and without a mnemonic, separators, a format
\* character, a private-use character, a noncharacter, and ordinary
\* characters (among them the letters of \u{ }).
EscChars ==
    {0, BEL, BSP, TAB, LF, VT, FF, CR, ESC, SP, DQ, SQ, BS, 97, LowerU,
     LBRACE, RBRACE, 127, 160, 8232, 8238, 26481, 57344, 1114111}

\* The strings of test_escape and test_round_trip that need more than
\* MaxLen characters, the text of a unicode escape, \u{a}, and a mix of
\* the quotes, \, a space and a tab.
EscVectors ==
    { <<7, 8, 11, 12, 10, 13, 9, 27, 27, 92, 39, 34>>,
      <<7, 8, 11, 12, 10, 13, 9, 27, 92, 39, 34>>,
      <<8238, 82, 84, 76>>,
      <<115, 112, 97, 99, 101, 115, 32, 111, 110, 108, 121>>,
      <<102, 111, 111, 32, 98, 97, 114, 32, 98, 97, 122>>,
      <<34, 39, 39, 39, 39, 39, 34, 40, 41, 40, 41, 41, 125, 123, 123,
        125, 123, 125, 123, 123, 123, 33, 47, 47, 47, 47>>,
      <<92, 117, 123, 97, 125>>,
      <<39, 34, 92, 32, 9>> }

EscInputs == SeqsUpTo(EscChars, MaxLen) \cup EscVectors

\* Pieces of unescape's enumerated arguments.
Tokens ==
    { <<DQ>>, <<SQ>>, <<BS>>, <<97>>, <<113>>, <<LowerU>>, <<RBRACE>>,
      <<PLUS>>, <<BS, LowerU, LBRACE>>, <<100, 56, 48, 48>>,
      <<49, 49, 48, 48, 48, 48>> }

\* The strings of test_unescape and of unescape's documentation, an escaped
\* space, and a unicode escape with a signed digit run, "\u{+41}".
RawVectors ==
    { <<34, 92, 117, 123, 54, 55, 55, 49, 125, 92, 117, 123, 54, 53, 98,
        57, 125, 34>>,
      <<39, 115, 111, 109, 101, 32, 115, 112, 97, 99, 101, 115, 39, 95,
        115, 111, 109, 101, 95, 117, 110, 113, 117, 111, 116, 101, 100,
        95, 34, 97, 110, 100, 32, 97, 32, 92, 116, 32, 116, 97, 98, 34>>,
      <<34, 92, 97, 92, 98, 92, 118, 92, 102, 92, 110, 92, 114, 92, 116,
        92, 101, 92, 69, 92, 92, 92, 39, 92, 34, 92, 117, 123, 48, 57,
        125, 34>>,
      <<34, 92, 92, 34, 39, 34, 34, 39>>,
      <<34, 92, 32, 34>>,
      <<34, 92, 117, 123, 43, 52, 49, 125, 34>> }

RawInputs ==
    {Flatten(ts) : ts \in SeqsUpTo(Tokens, MaxTokens)} \cup RawVectors

---------------------------------------------------------------------------
(* The specification. *)

Init ==
    /\ caller \in {"round_trip", "unescape"}
    /\ IF caller = "round_trip"
       THEN /\ s \in EscInputs
            /\ quoted = <<>>
            /\ pc = "scan"
       ELSE /\ s = <<>>
            /\ quoted \in RawInputs
            /\ pc = "unescape"
    /\ needs_quoting = FALSE
    /\ single_quotable = TRUE
    /\ cur = 0
    /\ output = <<>>
    /\ in_single_quote = FALSE
    /\ in_double_quote = FALSE
    /\ chars = 0
    /\ res = <<>>
    /\ exhausted = FALSE
    /\ ret = NoResult

Next ==
    \/ ScanStep
    \/ ScanEnd
    \/ ReturnUnquoted
    \/ ReturnSingleQuoted
    \/ BeginDoubleQuoted
    \/ EmitStep
    \/ EmitEnd
    \/ CallUnescape
    \/ StepInSingleQuote
    \/ StepInDoubleQuote
    \/ StepEscape
    \/ StepBare
    \/ UnescapeReturn

Spec == Init /\ [][Next]_vars

---------------------------------------------------------------------------
(* Properties of escape and of the round trip. *)

\* escape has returned (its result is output).
Escaped == caller = "round_trip" /\ pc \in {"escaped", "unescape", "done"}

\* c is none of ', \, ", a whitespace, a separator or an "other" character.
Plain(c) ==
    /\ c \notin {SQ, BS, DQ}
    /\ ~IsWhitespace(c)
    /\ ~IsSeparator(c)
    /\ ~IsOther(c)

\* C1: round trip: unescape(escape(s)) returns Ok, never Err, and the
\* string it returns is s.
C1_RoundTrip ==
    (caller = "round_trip" /\ pc = "done") => ret = Ok(s)

\* A round trip is complete for a string that holds a NUL and one of
\* ', " and \.
C1_Witness ==
    /\ caller = "round_trip"
    /\ pc = "done"
    /\ ret.tag = "Ok"
    /\ \E i, j \in 1..Len(s) : s[i] = 0 /\ s[j] \in {SQ, DQ, BS}

\* C2: a string with none of ', \, ", whitespace, separators and "other"
\* characters is returned as it is, without quotes; so is the empty string.
C2_UnquotedPath ==
    (Escaped /\ \A i \in 1..Len(s) : Plain(s[i])) => output = s

\* escape has returned a non-empty string of plain characters.
C2_Witness ==
    /\ Escaped
    /\ pc = "escaped"
    /\ Len(s) = 2
    /\ \A i \in 1..Len(s) : Plain(s[i])
    /\ output = s

\* C3: a string that holds a space or a " but no ', no \ and no other
\* character that forces quoting is wrapped verbatim in single quotes; a
\* string that holds ' or \ comes out between double quotes and never in
\* the single-quoted form.
C3_QuotingStyle ==
    Escaped =>
      /\ ( /\ \E i \in 1..Len(s) : s[i] \in {SP, DQ}
           /\ \A i \in 1..Len(s) : s[i] \in {SP, DQ} \/ Plain(s[i]) )
         => output = <<SQ>> \o s \o <<SQ>>
      /\ (\E i \in 1..Len(s) : s[i] \in {SQ, BS})
         => /\ Len(output) >= 2
            /\ output[1] = DQ
            /\ output[Len(output)] = DQ
            /\ output # <<SQ>> \o s \o <<SQ>>

\* escape has single-quoted a string that holds a " and a space.
C3_Witness ==
    /\ Escaped
    /\ s = <<DQ, SP>>
    /\ output = <<SQ, DQ, SP, SQ>>

\* The mnemonic letter the claim gives a character, 0 when it gives none.
Mnemonic(c) ==
    CASE c = 7 -> 97
      [] c = 8 -> 98
      [] c = 11 -> 118
      [] c = 12 -> 102
      [] c = 10 -> 110
      [] c = 13 -> 114
      [] c = 9 -> 116
      [] c = 27 -> 101
      [] OTHER -> 0

RECURSIVE Pow16(_)
Pow16(n) == IF n = 0 THEN 1 ELSE 16 * Pow16(n - 1)

\* The lowercase hexadecimal numeral of c without leading zeros, digit by
\* digit from its length.
LowerHex(c) ==
    LET n == CHOOSE m \in 1..6 : c < Pow16(m) /\ (m = 1 \/ c >= Pow16(m - 1))
        digit == <<48, 49, 50, 51, 52, 53, 54, 55, 56, 57,
                   97, 98, 99, 100, 101, 102>>
    IN  [i \in 1..n |-> digit[((c \div Pow16(n - i)) % 16) + 1]]

\* enc(c) of the claim.
Enc(c) ==
    IF c = DQ THEN <<BS, DQ>>
    ELSE IF c = BS THEN <<BS, BS>>
    ELSE IF c = SP THEN <<SP>>
    ELSE IF IsOther(c) \/ IsSeparator(c)
         THEN IF Mnemonic(c) # 0 THEN <<BS, Mnemonic(c)>>
              ELSE <<BS, 117, 123>> \o LowerHex(c) \o <<125>>
    ELSE <<c>>

\* C4: on the double-quote path the output is ", then enc(c) for each
\* character c of s in order, then ".
C4_DoubleQuotedEncoding ==
    (Escaped /\ needs_quoting /\ ~single_quotable)
      => output = <<DQ>> \o Flatten([i \in 1..Len(s) |-> Enc(s[i])]) \o <<DQ>>

\* escape has double-quoted a string of a character with a mnemonic and
\* one without: "\e\u{202e}".
C4_Witness ==
    /\ Escaped
    /\ s = <<ESC, 8238>>
    /\ output = <<34, 92, 101, 92, 117, 123, 50, 48, 50, 101, 125, 34>>

\* The string of test_escape: U+0007 U+0008 U+000B U+000C U+000A U+000D
\* U+0009 U+001B U+001B U+005C U+0027 U+0022.
Mnemonics12 == <<7, 8, 11, 12, 10, 13, 9, 27, 27, 92, 39, 34>>

\* The same with U+001B once.
Mnemonics11 == <<7, 8, 11, 12, 10, 13, 9, 27, 92, 39, 34>>

\* "\a\b\v\f\n\r\t\e\e\\'\""
Quoted12 ==
    <<34, 92, 97, 92, 98, 92, 118, 92, 102, 92, 110, 92, 114, 92, 116,
      92, 101, 92, 101, 92, 92, 39, 92, 34, 34>>

\* "\a\b\v\f\n\r\t\e\\'\""
Quoted11 ==
    <<34, 92, 97, 92, 98, 92, 118, 92, 102, 92, 110, 92, 114, 92, 116,
      92, 101, 92, 92, 39, 92, 34, 34>>

\* C5 as stated: escape of the 11-character string, U+001B once, is
\* "\a\b\v\f\n\r\t\e\e\\'\"".
C5_AsStated ==
    (Escaped /\ s = Mnemonics11) => output = Quoted12

\* C5 amended: escape of the 12-character string, U+001B twice, is
\* "\a\b\v\f\n\r\t\e\e\\'\""; with U+001B once the output holds one \e.
C5_MnemonicEscapes ==
    Escaped =>
      /\ s = Mnemonics12 => output = Quoted12
      /\ s = Mnemonics11 => output = Quoted11

\* escape has returned for the 12-character string.
C5_Witness ==
    /\ Escaped
    /\ pc = "escaped"
    /\ s = Mnemonics12
    /\ output = Quoted12

---------------------------------------------------------------------------
(* Properties of unescape. *)

\* The three states of the quote machine.
Bare == ~in_single_quote /\ ~in_double_quote
InSingleQuote == in_single_quote /\ ~in_double_quote
InDoubleQuote == in_double_quote /\ ~in_single_quote

\* An iteration of the while loop starts.
AtChar == pc = "unescape" /\ chars < Len(quoted)

\* The iteration took one character and the loop goes on without a result.
GoesOn == pc' = "unescape" /\ chars' = chars + 1 /\ ret' = ret

\* 'some spaces'_some_unquoted_"and a \t tab"
Mixed ==
    <<39, 115, 111, 109, 101, 32, 115, 112, 97, 99, 101, 115, 39, 95,
      115, 111, 109, 101, 95, 117, 110, 113, 117, 111, 116, 101, 100,
      95, 34, 97, 110, 100, 32, 97, 32, 92, 116, 32, 116, 97, 98, 34>>

\* some spaces_some_unquoted_and a <TAB> tab
MixedDecoded ==
    <<115, 111, 109, 101, 32, 115, 112, 97, 99, 101, 115, 95, 115, 111,
      109, 101, 95, 117, 110, 113, 117, 111, 116, 101, 100, 95, 97, 110,
      100, 32, 97, 32, 9, 32, 116, 97, 98>>

\* The transition table on the character c the iteration meets, the \ in
\* InDoubleQuote apart.
QuoteMachineStep ==
    AtChar =>
      LET c == quoted[chars + 1] IN
        /\ (Bare /\ c = SQ) => (InSingleQuote' /\ res' = res /\ GoesOn)
        /\ (Bare /\ c = DQ) => (InDoubleQuote' /\ res' = res /\ GoesOn)
        /\ (Bare /\ c \notin {SQ, DQ})
             => (Bare' /\ res' = Append(res, c) /\ GoesOn)
        /\ (InSingleQuote /\ c = SQ) => (Bare' /\ res' = res /\ GoesOn)
        /\ (InSingleQuote /\ c # SQ)
             => (InSingleQuote' /\ res' = Append(res, c) /\ GoesOn)
        /\ (InDoubleQuote /\ c = DQ) => (Bare' /\ res' = res /\ GoesOn)
        /\ (InDoubleQuote /\ c \notin {DQ, BS})
             => (InDoubleQuote' /\ res' = Append(res, c) /\ GoesOn)

\* The machine is in exactly one of its three states, and the mixed-style
\* string of the documentation decodes to the concatenation of its three
\* segments.
QuoteMachineResult ==
    /\ Bare \/ InSingleQuote \/ InDoubleQuote
    /\ (pc = "done" /\ quoted = Mixed) => ret = Ok(MixedDecoded)

\* C6: unescape follows the three-state quote machine: the delimiters
\* switch the state and are not emitted, every other character is emitted
\* and keeps the state (\ in InDoubleQuote apart), nothing met in Bare or
\* InSingleQuote ends the call, and adjacent segments decode to the
\* concatenation of their contents.
C6_QuoteMachine == []QuoteMachineResult /\ [][QuoteMachineStep]_vars

\* unescape has returned for the mixed-style string.
C6_Witness ==
    /\ pc = "done"
    /\ quoted = Mixed
    /\ ret.tag = "Ok"
    /\ ret.val = MixedDecoded

\* The escape table of the claim: the character after \ and what it emits.
Resolves ==
    (97 :> 7) @@ (98 :> 8) @@ (118 :> 11) @@ (102 :> 12) @@ (110 :> 10) @@
    (114 :> 13) @@ (116 :> 9) @@ (101 :> 27) @@ (69 :> 27) @@ (92 :> 92) @@
    (39 :> 39) @@ (34 :> 34) @@ (32 :> 32)

\* The call ends with an error that carries no output.
Fails == pc' = "done" /\ ret'.tag = "Err" /\ ret'.val = <<>>

\* An iteration that meets \ in InDoubleQuote.
EscapeResolutionStep ==
    (AtChar /\ InDoubleQuote /\ quoted[chars + 1] = BS) =>
      IF chars + 1 = Len(quoted) THEN Fails
      ELSE LET x == quoted[chars + 2] IN
             IF x \in DOMAIN Resolves
             THEN /\ res' = Append(res, Resolves[x])
                  /\ InDoubleQuote'
                  /\ chars' = chars + 2
                  /\ pc' = "unescape"
                  /\ ret' = ret
             ELSE IF x = 117
             THEN \/ Fails
                  \/ /\ res' = Append(res, parse_unicode(quoted, chars + 2).ch)
                     /\ InDoubleQuote'
                     /\ pc' = "unescape"
                     /\ ret' = ret
             ELSE Fails

IsHexDigit(c) == c \in 48..57 \/ c \in 65..70 \/ c \in 97..102

HexDigitValue(c) ==
    IF c \in 48..57 THEN c - 48 ELSE IF c \in 65..70 THEN c - 55 ELSE c - 87

\* The base-16 value of a run of hexadecimal digits, read from the left
\* after acc; values above 10FFFF are all given as 1114112.
RECURSIVE HexValue(_, _)
HexValue(run, acc) ==
    IF run = <<>> THEN acc
    ELSE IF acc * 16 + HexDigitValue(Head(run)) > 1114111 THEN 1114112
    ELSE HexValue(Tail(run), acc * 16 + HexDigitValue(Head(run)))

IsScalarValue(v) == v \in 0..55295 \/ v \in 57344..1114111

\* An iteration that meets \u in InDoubleQuote.
AtUnicodeEscape ==
    /\ AtChar
    /\ InDoubleQuote
    /\ chars + 1 < Len(quoted)
    /\ quoted[chars + 1] = BS
    /\ quoted[chars + 2] = 117

\* The three malformations of a \u escape end the call with an error.
MalformedUnicodeStep ==
    AtUnicodeEscape =>
      LET open == chars + 3
          closes == {j \in (open + 1)..Len(quoted) : quoted[j] = 125}
          close == CHOOSE j \in closes : \A i \in closes : j <= i
          run == SubSeq(quoted, open + 1, close - 1)
          noBrace == open > Len(quoted) \/ quoted[open] # 123
          hex == \A i \in 1..Len(run) : IsHexDigit(run[i])
      IN  /\ noBrace => Fails
          /\ (~noBrace /\ closes # {} /\ (run = <<>> \/ ~hex)) => Fails
          /\ (~noBrace /\ closes # {} /\ run # <<>> /\ hex
                /\ ~IsScalarValue(HexValue(run, 0))) => Fails

\* C8 as stated: in a double-quoted region a \u escape is an error when
\* the character after u is not { or is absent, when the digit run
\* between { and } is empty or holds a character that is no hexadecimal
\* digit, and when the value is no Unicode scalar value.
C8_AsStated == [][MalformedUnicodeStep]_vars

\* C9 as stated: the end of the input is an error only when the last
\* character taken is a \ met in InDoubleQuote.
C9_AsStated ==
    (pc = "done" /\ ret.tag = "Err" /\ exhausted)
      => /\ chars = Len(quoted)
         /\ quoted[Len(quoted)] = BS
         /\ ret.at = Len(quoted) - 1
         /\ InDoubleQuote

\* The error is the dangling \: the last character, met in InDoubleQuote.
DanglingBackslash ==
    /\ chars = Len(quoted)
    /\ quoted[Len(quoted)] = BS
    /\ ret.at = Len(quoted) - 1
    /\ InDoubleQuote

\* The error is that of a \u escape begun in InDoubleQuote.
InsideUnicodeEscape ==
    /\ ret.at >= 1
    /\ quoted[ret.at] = BS
    /\ quoted[ret.at + 1] = 117
    /\ InDoubleQuote

\* C9 amended: the end of the input in Bare, InSingleQuote or
\* InDoubleQuote returns Ok with everything emitted so far, also for an
\* unterminated quote; the end of the input is an error only when the
\* last character taken is a \ met in InDoubleQuote or the input ends
\* inside a \u escape.
C9_EndOfInput ==
    pc = "done" =>
      /\ ret.tag = "Ok" => (ret.val = res /\ exhausted /\ chars = Len(quoted))
      /\ (\A i \in 1..Len(quoted) : quoted[i] # BS) => ret.tag = "Ok"
      /\ (ret.tag = "Err" /\ exhausted)
           => (DanglingBackslash \/ InsideUnicodeEscape)

\* The input has ended inside a double quote that was never closed, and
\* unescape has returned Ok with the characters emitted.
C9_Witness ==
    /\ pc = "done"
    /\ InDoubleQuote
    /\ ret.tag = "Ok"
    /\ Len(ret.val) > 0

\* A \u escape that decodes takes {, a run of hexadecimal digits and the
\* } that ends it, emits the value of the run and goes on in InDoubleQuote
\* after the }.
UnicodeDecodeStep ==
    (AtUnicodeEscape /\ pc' = "unescape") =>
      LET open == chars + 3
          run == SubSeq(quoted, open + 1, chars' - 1)
      IN  /\ open <= Len(quoted)
          /\ quoted[open] = 123
          /\ chars' > open + 1
          /\ quoted[chars'] = 125
          /\ \A i \in 1..Len(run) : IsHexDigit(run[i])
          /\ res' = Append(res, HexValue(run, 0))
          /\ InDoubleQuote'

\* C10 as stated: a successful unicode escape takes exactly the {, the
\* hexadecimal digits up to the next } and that }, emits the scalar value
\* of the digits and resumes in InDoubleQuote after the }; "\u{6771}\u{65b9}"
\* decodes to U+6771 U+65B9.
C10_AsStated ==
    /\ [][UnicodeDecodeStep]_vars
    /\ [](pc = "done"
            /\ quoted = <<34, 92, 117, 123, 54, 55, 55, 49, 125, 92, 117,
                          123, 54, 53, 98, 57, 125, 34>>
          => ret = Ok(<<26481, 26041>>))

===========================================================================
